---- MODULE Spec2Model ----
(***************************************************************************)
(* Model of overwatch's C++ frame preprocessing core                       *)
(* (src/backend/cpp_preproc/frame_processor.{hpp,cpp}):                    *)
(*   - FrameProcessor: the per-frame operations and the two OpenMP batch   *)
(*     loops batch_preprocess and batch_encode_jpeg;                       *)
(*   - FrameProcessorPool: the worker threads, the task queue, the         *)
(*     promises and shutdown.                                              *)
(* A processor context p is one FrameProcessor object: context 0 is a      *)
(* processor the host calls directly (specification Spec), context w >= 1  *)
(* is the processor that pool worker w constructs inside the task it is    *)
(* running (specification PoolSpec).                                       *)
(***************************************************************************)
EXTENDS Integers, Sequences, FiniteSets, TLC

\* ------------------------------------------------------------------ bounds
MaxFrames == 3          \* longest frame list handed to a direct batch call
MaxThreads == 2         \* largest num_threads_ / hardware_concurrency()
MaxWorkers == 2         \* largest pool size
MaxSubmits == 2         \* submissions made to one pool
MaxShutdowns == 2       \* shutdown() calls made on one pool (destructor included)
MaxCalls == 3           \* calls the host makes on one processor, one after the other
MaxCallers == 2         \* threads calling one processor at the same time

Ctx == 0 .. MaxWorkers
Threads == 1 .. MaxThreads
Workers == 1 .. MaxWorkers
TaskIds == 1 .. MaxSubmits
Callers == 1 .. MaxCallers

\* ------------------------------------------------------------------ frames
\* A cv::Mat, reduced to what the code reads: its geometry, its channel count,
\* its element depth, its channel order, an id standing for the pixels, and
\* what its elements hold: the "samples" of the image, the samples "scaled" by
\* 1/255, those "standardized" by mean and std, or "nonfinite" numbers.
GoodA == [id |-> 1, cols |-> 4, rows |-> 2, channels |-> 3, depth |-> "u8", order |-> "BGR",
          values |-> "samples"]
GoodB == [id |-> 2, cols |-> 6, rows |-> 2, channels |-> 3, depth |-> "u8", order |-> "BGR",
          values |-> "samples"]
ZeroWidth == [id |-> 3, cols |-> 0, rows |-> 2, channels |-> 3, depth |-> "u8", order |-> "BGR",
              values |-> "samples"]
\* Frames of the other channel counts: grayscale, two-channel, BGRA.
Gray == [id |-> 4, cols |-> 4, rows |-> 2, channels |-> 1, depth |-> "u8", order |-> "GRAY",
         values |-> "samples"]
TwoChannel == [id |-> 5, cols |-> 4, rows |-> 2, channels |-> 2, depth |-> "u8", order |-> "XY",
               values |-> "samples"]
Bgra == [id |-> 6, cols |-> 4, rows |-> 2, channels |-> 4, depth |-> "u8", order |-> "BGRA",
         values |-> "samples"]

Frames == {GoodA, GoodB, ZeroWidth}

MatEmpty(m) == m.cols = 0 \/ m.rows = 0

RECURSIVE SeqsUpTo(_, _)
SeqsUpTo(S, n) ==
    IF n = 0 THEN {<<>>}
    ELSE LET shorter == SeqsUpTo(S, n - 1)
         IN shorter \cup {Append(s, x) : s \in {q \in shorter : Len(q) = n - 1}, x \in S}

FrameLists == SeqsUpTo(Frames, MaxFrames)

\* The frame lists the pool's clients submit.
PoolFrameLists == {<<GoodA, GoodB>>, <<ZeroWidth>>}

\* ------------------------------------------------------------------ configs
\* PreprocessConfig with its default member initialisers. The components of mean
\* and std are floats in the code; only their comparisons with 0 and 1 decide
\* anything, so small integers stand for them.
DefaultPreprocessConfig ==
    [target_width |-> 640, target_height |-> 640, normalize |-> TRUE,
     rgb_conversion |-> TRUE, mean |-> <<0, 0, 0>>, std |-> <<1, 1, 1>>]

\* The configurations a caller passes besides the default one.
ZeroTargetConfig == [DefaultPreprocessConfig EXCEPT !.target_width = 0]
NegativeTargetConfig == [DefaultPreprocessConfig EXCEPT !.target_height = 0 - 1]
ZeroStdConfig == [DefaultPreprocessConfig EXCEPT !.std = <<1, 0, 1>>]
MeanStdConfig == [DefaultPreprocessConfig EXCEPT !.mean = <<1, 1, 1>>, !.std = <<2, 2, 2>>]
PlainConfig == [DefaultPreprocessConfig EXCEPT !.normalize = FALSE, !.rgb_conversion = FALSE]

PreprocessConfigs ==
    {DefaultPreprocessConfig, ZeroTargetConfig, NegativeTargetConfig, ZeroStdConfig,
     MeanStdConfig, PlainConfig}

DefaultJPEGConfig == [quality |-> 85, subsample |-> "TJSAMP_420", optimize |-> TRUE]

\* ------------------------------------------------------------------ results
\* A member of ProcessedFrame that the code never assigned on this path: it
\* holds no value of the program, which this marker (no frame's geometry) stands for.
Indeterminate == 0 - 1

Ok(m) == [ok |-> TRUE, mat |-> m, what |-> ""]
Throw(msg) == [ok |-> FALSE, mat |-> <<>>, what |-> msg]

\* Mutant of CvResize: the output keeps the geometry of the source.
CvResizeUnscaled(m, w, h) ==
    IF MatEmpty(m) \/ w <= 0 \/ h <= 0 THEN Throw("cv::resize: empty source or size")
    ELSE Ok(m)

\* cv::resize: rejects an empty source, otherwise yields the requested size.
CvResize(m, w, h) ==
    IF MatEmpty(m) \/ w <= 0 \/ h <= 0 THEN Throw("cv::resize: empty source or size")
    ELSE Ok([m EXCEPT !.cols = w, !.rows = h])

\* cv::cvtColor(COLOR_BGR2RGB): rejects an empty source, swaps the channel order.
CvBgr2Rgb(m) ==
    IF MatEmpty(m) THEN Throw("cv::cvtColor: empty source")
    ELSE Ok([m EXCEPT !.order = IF m.order = "BGR" THEN "RGB" ELSE "BGR"])

\* Mat::convertTo(CV_32FC3, 1/255): only the depth of the type is used, the
\* channel count stays; an empty source stays empty.
CvConvertToFloat(m) == Ok([m EXCEPT !.depth = "f32", !.values = "scaled"])

\* if (config.mean[0] != 0.0f || ... || config.std[2] != 1.0f)
MeanStdGiven(config) ==
    \/ \E i \in 1 .. 3 : config.mean[i] # 0
    \/ \E i \in 1 .. 3 : config.std[i] # 1

\* The loop `for i < 3` indexes channels[0..2] of the vector cv::split filled:
\* it stays inside the vector only for a Mat that has pixels and three channels
\* or more.
SplitInRange(m) == ~MatEmpty(m) /\ m.channels >= 3

\* split, channels[i] = (channels[i] - mean[i]) / std[i] for i < 3, merge. The
\* division is a float division of a matrix by a scalar: by a zero scalar it
\* raises nothing and leaves infinities and NaNs in the channel.
MeanStdNormalize(m, config) ==
    IF ~SplitInRange(m) THEN Ok([m EXCEPT !.values = "undefined"])
    ELSE IF \E i \in 1 .. 3 : config.std[i] = 0
         THEN Ok([m EXCEPT !.values = "nonfinite"])
         ELSE Ok([m EXCEPT !.values = "standardized"])

PreprocessInternal(frame, config) ==
    LET r1 == IF config.target_width > 0 /\ config.target_height > 0
              THEN CvResize(frame, config.target_width, config.target_height)
              ELSE Ok(frame)
        r2 == IF ~r1.ok THEN r1
              ELSE IF config.rgb_conversion /\ frame.channels = 3
                   THEN CvBgr2Rgb(r1.mat) ELSE r1
        r3 == IF ~r2.ok THEN r2
              ELSE IF config.normalize THEN CvConvertToFloat(r2.mat) ELSE r2
        r4 == IF ~r3.ok THEN r3
              ELSE IF config.normalize /\ MeanStdGiven(config)
                   THEN MeanStdNormalize(r3.mat, config) ELSE r3
    IN r4

ElemSize(m) == IF m.depth = "f32" THEN 4 ELSE 1

\* The contiguous copy of a Mat's pixels: what they are and how many bytes.
Packed(m) ==
    <<"raw", m.id, m.order, m.depth, m.cols * m.rows * m.channels * ElemSize(m), m.values>>

\* preprocess_for_inference after preprocess_internal returned or threw r.
PreprocessedResult(r) ==
    IF r.ok
    THEN [data |-> Packed(r.mat), width |-> r.mat.cols, height |-> r.mat.rows,
          channels |-> r.mat.channels, success |-> TRUE, error_msg |-> ""]
    ELSE [data |-> <<>>, width |-> Indeterminate, height |-> Indeterminate,
          channels |-> Indeterminate, success |-> FALSE, error_msg |-> r.what]

PreprocessForInference(frame, config) ==
    PreprocessedResult(PreprocessInternal(frame, config))

\* A value-initialised ProcessedFrame: a slot of std::vector<ProcessedFrame>(n).
EmptySlot ==
    [data |-> <<>>, width |-> 0, height |-> 0, channels |-> 0,
     success |-> FALSE, error_msg |-> ""]

\* ------------------------------------------------------------------ encoder
\* Mutant of EncodePrepare: the dispatch has no rejecting branch, every channel
\* count other than 1 is compressed as TJPF_BGR.
EncodePrepareAnyChannels(frame) ==
    IF frame.channels = 4
    THEN IF MatEmpty(frame) THEN Throw("cv::cvtColor: empty source")
         ELSE Ok([frame EXCEPT !.channels = 3, !.order = "BGR"])
    ELSE Ok(frame)

\* Mutant of EncodePrepare: a 4-channel frame is not reduced before the dispatch.
EncodePrepareNoReduction(frame) ==
    IF frame.channels = 1 \/ frame.channels = 3 THEN Ok(frame)
    ELSE Throw("Unsupported channel count")

\* encode_jpeg_internal up to the codec call: the 4 -> 3 channel reduction and
\* the pixel-format dispatch.
EncodePrepare(frame) ==
    LET r == IF frame.channels = 4
             THEN IF MatEmpty(frame) THEN Throw("cv::cvtColor: empty source")
                  ELSE Ok([frame EXCEPT !.channels = 3, !.order = "BGR"])
             ELSE Ok(frame)
    IN IF ~r.ok THEN r
       ELSE IF r.mat.channels = 1 \/ r.mat.channels = 3 THEN r
       ELSE Throw("Unsupported channel count")

\* int pixel_format: TJPF_GRAY for one channel, TJPF_BGR for three.
PixelFormat(m) == IF m.channels = 1 THEN "TJPF_GRAY" ELSE "TJPF_BGR"

\* tjCompress2 called on a handle no other thread is using: the codestream of
\* the cols x rows pixels it read from m.data in the given pixel format.
TjCompress2(m) ==
    IF m.cols <= 0 \/ m.rows <= 0
    THEN [ret |-> -1, buf |-> <<>>, size |-> 0]
    ELSE [ret |-> 0, buf |-> <<"jpeg", m.id, m.cols, m.rows, PixelFormat(m), m.depth>>,
          size |-> m.cols * m.rows]

\* tjCompress2 called on a handle another thread is using at the same time: a
\* data race on the handle's state, so the call may return anything.
TjCompress2Raced(m) ==
    {TjCompress2(m),
     [ret |-> 0, buf |-> <<"jpeg", "torn">>, size |-> 1],
     [ret |-> -1, buf |-> <<>>, size |-> 0]}

\* encode_jpeg_internal after the codec call returned c.
EncodeFinish(frame, c) ==
    IF c.ret # 0
    THEN [data |-> <<>>, width |-> frame.cols, height |-> frame.rows,
          channels |-> frame.channels, success |-> FALSE,
          error_msg |-> "turbojpeg compression failed"]
    ELSE [data |-> c.buf, width |-> frame.cols, height |-> frame.rows,
          channels |-> frame.channels, success |-> TRUE, error_msg |-> ""]

EncodeRejected(frame, msg) ==
    [data |-> <<>>, width |-> frame.cols, height |-> frame.rows,
     channels |-> frame.channels, success |-> FALSE, error_msg |-> msg]

\* encode_jpeg_internal run by one thread alone.
EncodeJpegInternal(frame) ==
    LET pr == EncodePrepare(frame)
    IN IF ~pr.ok THEN EncodeRejected(frame, pr.what)
       ELSE EncodeFinish(frame, TjCompress2(pr.mat))

\* Mutant of EncodedBytes: the encoder never adds to bytes_encoded_.
EncodedBytesUncounted(c) == 0

\* bytes_encoded_ += jpeg_size, on the success path only.
EncodedBytes(c) == IF c.ret = 0 THEN c.size ELSE 0

\* result.data.size() of an encode result: the jpeg_size its codestream was
\* copied with (result.data.resize(jpeg_size)).
CodestreamLength(data) ==
    IF data = <<>> THEN 0
    ELSE IF Len(data) = 2 THEN 1
    ELSE data[3] * data[4]

\* ------------------------------------------------------------------ single frames
\* resize_frame(frame, width, height, interpolation)
ResizeFrameResult(frame, width, height) ==
    LET r == CvResize(frame, width, height)
    IN IF r.ok
       THEN [data |-> Packed(r.mat), width |-> width, height |-> height,
             channels |-> frame.channels, success |-> TRUE, error_msg |-> ""]
       ELSE [data |-> <<>>, width |-> width, height |-> height,
             channels |-> frame.channels, success |-> FALSE, error_msg |-> r.what]

\* preprocess_and_encode, the catch block: a ProcessedFrame of which only
\* success and error_msg are assigned.
PreprocessFailed(msg) ==
    [data |-> <<>>, width |-> Indeterminate, height |-> Indeterminate,
     channels |-> Indeterminate, success |-> FALSE, error_msg |-> msg]

\* Mutant of EncodeInput: when preprocessing failed the encoder is run on the
\* frame as it came in.
EncodeInputAlways(pre, frame) == <<IF pre.ok THEN pre.mat ELSE frame>>

\* preprocess_and_encode: the Mats handed to encode_jpeg_internal after
\* preprocess_internal returned or threw pre: its output, or none, the
\* exception having left the try block.
EncodeInput(pre, frame) == IF pre.ok THEN <<pre.mat>> ELSE <<>>

\* preprocess_and_encode after preprocess_internal returned or threw pre.
EncodeAfter(pre, frame) ==
    IF EncodeInput(pre, frame) = <<>> THEN PreprocessFailed(pre.what)
    ELSE EncodeJpegInternal(EncodeInput(pre, frame)[1])

\* preprocess_and_encode(frame, preproc_config, jpeg_config)
PreprocessAndEncodeResult(frame, config) ==
    EncodeAfter(PreprocessInternal(frame, config), frame)

\* ------------------------------------------------------------------ state
VARIABLES
    \* FrameProcessor, per context
    num_threads_,        \* [Ctx -> Nat]
    frames_processed_,   \* [Ctx -> Nat]
    bytes_encoded_,      \* [Ctx -> Nat]
    \* one batch call, per context
    bpc,                 \* "idle" | "running" | "returned"
    op,                  \* "none" | "preprocess" | "encode"
    frames,              \* the frames argument
    results,             \* the local vector results
    claimed,             \* loop indices already handed to a thread
    tpc,                 \* per thread: "loop" | "push" | "compress"
    tcur,                \* per thread: the index i it is processing
    tlast,               \* per thread: the last index it was handed, 0 if none yet
    tlocal,              \* per thread: its local ProcessedFrame result / prepared Mat
    thandle,             \* per thread: the tjhandle it passed to tjCompress2
    raced,               \* threads whose current tjCompress2 call overlapped another on the same handle
    writes,              \* per index: how many times results[i] was assigned
    returned,            \* the vector the batch call returned
    \* FrameProcessorPool
    nworkers,            \* workers_.size()
    hw,                  \* std::thread::hardware_concurrency()
    stop_,
    tasks_,              \* the queue of task closures
    wpc,                 \* per worker: "wait" | "run" | "exited"
    wtask,               \* per worker: the id of the task it is running, 0 if none
    joinable,            \* per worker: workers_[i].joinable()
    submitted,           \* per task id: the closure's captures [op, frames], by submission
    nsub,                \* submissions made so far
    promise,             \* per task id: <<>> until set_value, then <<value>>
    spc,                 \* the thread calling shutdown(): "out" | "join"
    sidx,                \* that thread's position in the join loop
    ncalls,              \* shutdown() calls completed
    \* history, for the properties
    deqOrder,            \* task ids in the order workers dequeued them
    preStop,             \* task ids enqueued while stop_ was false
    postStop,            \* task ids enqueued while stop_ was true
    drained,             \* task ids dequeued while stop_ was true
    joins,               \* per worker: how many times it was joined
    \* the host's calls on processor 0, for the properties
    call,                \* the last call: its arguments, what it ran, what it returned
    since,               \* what the calls returned since the last reset_stats()
    ncall,               \* calls made so far
    alive,               \* the process is running: nothing has brought it down
    \* threads calling the operations of processor 0 at the same time
    stats_mutex_,        \* the caller holding stats_mutex_, 0 if none
    cpc,                 \* per caller: its position inside the operation it called
    cjob                 \* per caller: the operation it called and what it computed

bvars == <<num_threads_, frames_processed_, bytes_encoded_, bpc, op, frames, results,
           claimed, tpc, tcur, tlast, tlocal, thandle, raced, writes, returned>>
pvars == <<nworkers, hw, stop_, tasks_, wpc, wtask, joinable, submitted, nsub, promise,
           spc, sidx, ncalls, deqOrder, preStop, postStop, drained, joins>>
hvars == <<alive, stats_mutex_, cpc, cjob>>
ovars == <<call, since, ncall, hvars>>
vars == <<bvars, pvars, ovars>>

\* ------------------------------------------------------------------ batch loops
\* The OpenMP team of a parallel region and the iteration space of its loop
\* (index i here is the code's i + 1). No schedule clause is given, so which
\* thread runs which iteration is the implementation's choice (static, dynamic
\* or guided, with any chunk size). Every schedule splits the iterations among
\* the team and gives a thread its own in increasing order, so a thread at the
\* top of the loop takes an iteration not yet handed out that follows the ones
\* it has run, and passes over a lower one only if that one is left to another
\* thread that can still reach it.
Team(p) == 1 .. num_threads_[p]
Indices(p) == 1 .. Len(frames[p])
Unclaimed(p) == Indices(p) \ claimed[p]
Lowest(S) == CHOOSE x \in S : \A y \in S : x <= y
NextFor(p, t) ==
    {i \in Unclaimed(p) :
        /\ i > tlast[p][t]
        /\ LET passed == {j \in Unclaimed(p) : j < i}
           IN passed # {} =>
                 \E u \in Team(p) \ {t} : tlast[p][u] < Lowest(passed)}

\* std::vector<ProcessedFrame> results; results.reserve(n)   (batch_preprocess)
ReservedResults(fs) == <<>>
\* Mutant of PresizedResults: the vector is made one slot longer than the batch.
PresizedResultsOneMore(fs) == [i \in 1 .. Len(fs) + 1 |-> EmptySlot]

\* std::vector<ProcessedFrame> results(n)                     (batch_encode_jpeg)
PresizedResults(fs) == [i \in 1 .. Len(fs) |-> EmptySlot]

\* Entry into a batch call on context p: the locals of the call.
BeginBatch(p, o, fs) ==
    /\ bpc' = [bpc EXCEPT ![p] = "running"]
    /\ op' = [op EXCEPT ![p] = o]
    /\ frames' = [frames EXCEPT ![p] = fs]
    /\ results' = [results EXCEPT ![p] =
                     IF o = "preprocess" THEN ReservedResults(fs) ELSE PresizedResults(fs)]
    /\ claimed' = [claimed EXCEPT ![p] = {}]
    /\ tpc' = [tpc EXCEPT ![p] = [t \in Threads |-> "loop"]]
    /\ tcur' = [tcur EXCEPT ![p] = [t \in Threads |-> 0]]
    /\ tlast' = [tlast EXCEPT ![p] = [t \in Threads |-> 0]]
    /\ tlocal' = [tlocal EXCEPT ![p] = [t \in Threads |-> <<>>]]
    /\ thandle' = [thandle EXCEPT ![p] = [t \in Threads |-> "none"]]
    /\ raced' = [raced EXCEPT ![p] = {}]
    /\ writes' = [writes EXCEPT ![p] = [i \in 1 .. Len(fs) |-> 0]]
    /\ returned' = [returned EXCEPT ![p] = <<>>]

\* batch_preprocess, loop body up to the critical section: thread t takes
\* iteration i and runs preprocess_for_inference(frames[i], config), which on
\* success increments frames_processed_ under stats_mutex_.
PreprocessIteration(p, t) ==
    /\ bpc[p] = "running" /\ op[p] = "preprocess"
    /\ t \in Team(p) /\ tpc[p][t] = "loop"
    /\ \E i \in NextFor(p, t) :
          LET r == PreprocessForInference(frames[p][i], DefaultPreprocessConfig)
          IN /\ claimed' = [claimed EXCEPT ![p] = @ \cup {i}]
             /\ tcur' = [tcur EXCEPT ![p][t] = i]
             /\ tlast' = [tlast EXCEPT ![p][t] = i]
             /\ tlocal' = [tlocal EXCEPT ![p][t] = r]
             /\ frames_processed_' =
                   [frames_processed_ EXCEPT ![p] = IF r.success THEN @ + 1 ELSE @]
    /\ tpc' = [tpc EXCEPT ![p][t] = "push"]
    /\ UNCHANGED <<num_threads_, bytes_encoded_, bpc, op, frames, results, thandle,
                   raced, writes, returned>>
    /\ UNCHANGED pvars
    /\ UNCHANGED ovars

\* Mutant of PushedResults: a failed frame's result is not collected.
PushedResultsDroppingFailures(rs, r) == IF r.success THEN Append(rs, r) ELSE rs

\* results.push_back(std::move(result))
PushedResults(rs, r) == Append(rs, r)

\* batch_preprocess, the critical section of the loop body.
PushBack(p, t) ==
    /\ bpc[p] = "running" /\ op[p] = "preprocess"
    /\ t \in Team(p) /\ tpc[p][t] = "push"
    /\ results' = [results EXCEPT ![p] = PushedResults(@, tlocal[p][t])]
    /\ tpc' = [tpc EXCEPT ![p][t] = "loop"]
    /\ tlocal' = [tlocal EXCEPT ![p][t] = <<>>]
    /\ tcur' = [tcur EXCEPT ![p][t] = 0]
    /\ UNCHANGED <<num_threads_, frames_processed_, bytes_encoded_, bpc, op, frames,
                   claimed, tlast, thandle, raced, writes, returned>>
    /\ UNCHANGED pvars
    /\ UNCHANGED ovars

\* The tjhandle that thread t of context p passes to tjCompress2. The handle
\* each team thread creates for itself in batch_encode_jpeg (tjInitCompress,
\* tjDestroy) is passed to no call.
CompressorOf(p, t) == "jpeg_compressor_"

\* The slot of results that iteration i assigns: results[i] = ...
SlotOf(i) == i

AssignSlot(p, i, r) ==
    /\ results' = [results EXCEPT ![p][SlotOf(i)] = r]
    /\ writes' = [writes EXCEPT ![p][SlotOf(i)] = @ + 1]

\* batch_encode_jpeg, loop body: thread t takes iteration i and enters
\* encode_jpeg_internal(frames[i], config). A frame the channel dispatch rejects
\* never reaches the codec and its failed result is assigned at once; any other
\* frame is handed to tjCompress2 on the handle CompressorOf names.
EncodeBegin(p, t) ==
    /\ bpc[p] = "running" /\ op[p] = "encode"
    /\ t \in Team(p) /\ tpc[p][t] = "loop"
    /\ \E i \in NextFor(p, t) :
          LET pr == EncodePrepare(frames[p][i])
              h == CompressorOf(p, t)
              others == {u \in Team(p) : tpc[p][u] = "compress" /\ thandle[p][u] = h}
          IN /\ claimed' = [claimed EXCEPT ![p] = @ \cup {i}]
             /\ tlast' = [tlast EXCEPT ![p][t] = i]
             /\ IF pr.ok
                THEN /\ tpc' = [tpc EXCEPT ![p][t] = "compress"]
                     /\ tcur' = [tcur EXCEPT ![p][t] = i]
                     /\ tlocal' = [tlocal EXCEPT ![p][t] = pr.mat]
                     /\ thandle' = [thandle EXCEPT ![p][t] = h]
                     /\ raced' = [raced EXCEPT ![p] =
                                    IF others = {} THEN @ ELSE @ \cup others \cup {t}]
                     /\ UNCHANGED <<results, writes>>
                ELSE /\ AssignSlot(p, i, EncodeRejected(frames[p][i], pr.what))
                     /\ UNCHANGED <<tpc, tcur, tlocal, thandle, raced>>
    /\ UNCHANGED <<num_threads_, frames_processed_, bytes_encoded_, bpc, op, frames,
                   returned>>
    /\ UNCHANGED pvars
    /\ UNCHANGED ovars

\* batch_encode_jpeg, loop body: tjCompress2 returns to thread t, which builds
\* the result, updates the counters under stats_mutex_ and assigns results[i].
EncodeEnd(p, t) ==
    /\ bpc[p] = "running" /\ op[p] = "encode"
    /\ t \in Team(p) /\ tpc[p][t] = "compress"
    /\ \E c \in (IF t \in raced[p] THEN TjCompress2Raced(tlocal[p][t])
                 ELSE {TjCompress2(tlocal[p][t])}) :
          /\ AssignSlot(p, tcur[p][t], EncodeFinish(frames[p][tcur[p][t]], c))
          /\ frames_processed_' =
                [frames_processed_ EXCEPT ![p] = IF c.ret = 0 THEN @ + 1 ELSE @]
          /\ bytes_encoded_' = [bytes_encoded_ EXCEPT ![p] = @ + EncodedBytes(c)]
    /\ tpc' = [tpc EXCEPT ![p][t] = "loop"]
    /\ tcur' = [tcur EXCEPT ![p][t] = 0]
    /\ tlocal' = [tlocal EXCEPT ![p][t] = <<>>]
    /\ thandle' = [thandle EXCEPT ![p][t] = "none"]
    /\ raced' = [raced EXCEPT ![p] = @ \ {t}]
    /\ UNCHANGED <<num_threads_, bpc, op, frames, claimed, tlast, returned>>
    /\ UNCHANGED pvars
    /\ UNCHANGED ovars

\* The barrier closing the parallel region: every iteration has been run and
\* every team thread has left the loop body.
BarrierPassed(p) ==
    /\ bpc[p] = "running"
    /\ Unclaimed(p) = {}
    /\ \A t \in Team(p) : tpc[p][t] = "loop"

\* The history of results since the last reset_stats(), after a call returned
\* the results rs: how many successful encode results were returned, the sum of
\* the lengths of their codestreams, and whether every call was an encode.
RECURSIVE SumLengths(_)
SumLengths(rs) ==
    IF rs = <<>> THEN 0
    ELSE (IF Head(rs).success THEN CodestreamLength(Head(rs).data) ELSE 0)
             + SumLengths(Tail(rs))

Successes(rs) == Cardinality({i \in 1 .. Len(rs) : rs[i].success})

SinceEncodes(rs) ==
    [since EXCEPT !.encodes = @ + Successes(rs), !.bytes = @ + SumLengths(rs)]

SinceOther == [since EXCEPT !.onlyEncodes = FALSE]

\* The barrier, then `return results`, in a call the host made.
BatchReturn(p) ==
    /\ BarrierPassed(p)
    /\ returned' = [returned EXCEPT ![p] = results[p]]
    /\ bpc' = [bpc EXCEPT ![p] = "returned"]
    /\ since' = IF op[p] = "encode" THEN SinceEncodes(results[p]) ELSE SinceOther
    /\ UNCHANGED <<num_threads_, frames_processed_, bytes_encoded_, op, frames, results,
                   claimed, tpc, tcur, tlast, tlocal, thandle, raced, writes>>
    /\ UNCHANGED pvars
    /\ UNCHANGED <<call, ncall, hvars>>

\* ------------------------------------------------------------------ direct calls
\* FrameProcessor(num_threads): the counters start at 0, no call is running.
BatchIdle ==
    /\ frames_processed_ = [p \in Ctx |-> 0]
    /\ bytes_encoded_ = [p \in Ctx |-> 0]
    /\ bpc = [p \in Ctx |-> "idle"]
    /\ op = [p \in Ctx |-> "none"]
    /\ frames = [p \in Ctx |-> <<>>]
    /\ results = [p \in Ctx |-> <<>>]
    /\ claimed = [p \in Ctx |-> {}]
    /\ tpc = [p \in Ctx |-> [t \in Threads |-> "loop"]]
    /\ tcur = [p \in Ctx |-> [t \in Threads |-> 0]]
    /\ tlast = [p \in Ctx |-> [t \in Threads |-> 0]]
    /\ tlocal = [p \in Ctx |-> [t \in Threads |-> <<>>]]
    /\ thandle = [p \in Ctx |-> [t \in Threads |-> "none"]]
    /\ raced = [p \in Ctx |-> {}]
    /\ writes = [p \in Ctx |-> <<>>]
    /\ returned = [p \in Ctx |-> <<>>]

\* No pool exists.
PoolAbsent ==
    /\ nworkers = 0 /\ hw = 1 /\ stop_ = FALSE /\ tasks_ = <<>>
    /\ wpc = [w \in Workers |-> "exited"]
    /\ wtask = [w \in Workers |-> 0]
    /\ joinable = [w \in Workers |-> FALSE]
    /\ submitted = <<>> /\ nsub = 0
    /\ promise = [k \in TaskIds |-> <<>>]
    /\ spc = "out" /\ sidx = 0 /\ ncalls = 0
    /\ deqOrder = <<>> /\ preStop = {} /\ postStop = {} /\ drained = {}
    /\ joins = [w \in Workers |-> 0]

\* The host has made no call yet.
NoCall ==
    [name |-> "none", frame |-> GoodA, width |-> 0, height |-> 0,
     config |-> DefaultPreprocessConfig, result |-> EmptySlot, pre |-> Ok(GoodA),
     codec |-> <<>>, fp0 |-> 0, be0 |-> 0, stats |-> "untouched"]

\* A caller thread that is inside no operation.
NoJob ==
    [name |-> "none", frame |-> GoodA, width |-> 0, height |-> 0,
     config |-> DefaultPreprocessConfig, success |-> FALSE, size |-> 0,
     raced |-> FALSE, read |-> 0]

NoCalls ==
    /\ call = NoCall
    /\ since = [reset |-> FALSE, encodes |-> 0, bytes |-> 0, onlyEncodes |-> TRUE]
    /\ ncall = 0
    /\ alive = TRUE
    /\ stats_mutex_ = 0
    /\ cpc = [c \in Callers |-> "out"]
    /\ cjob = [c \in Callers |-> NoJob]

Init ==
    /\ \E n \in 1 .. MaxThreads : num_threads_ = [p \in Ctx |-> n]
    /\ BatchIdle
    /\ PoolAbsent
    /\ NoCalls

\* The host calls processor.batch_preprocess(frames, config).
CallBatchPreprocess(fs) ==
    /\ bpc[0] = "idle"
    /\ BeginBatch(0, "preprocess", fs)
    /\ UNCHANGED <<num_threads_, frames_processed_, bytes_encoded_>>
    /\ UNCHANGED pvars
    /\ UNCHANGED ovars

\* The host calls processor.batch_encode_jpeg(frames, config).
CallBatchEncodeJpeg(fs) ==
    /\ bpc[0] = "idle"
    /\ BeginBatch(0, "encode", fs)
    /\ UNCHANGED <<num_threads_, frames_processed_, bytes_encoded_>>
    /\ UNCHANGED pvars
    /\ UNCHANGED ovars

Next ==
    \/ \E fs \in FrameLists : CallBatchPreprocess(fs)
    \/ \E fs \in FrameLists : CallBatchEncodeJpeg(fs)
    \/ \E t \in Threads : PreprocessIteration(0, t)
    \/ \E t \in Threads : PushBack(0, t)
    \/ \E t \in Threads : EncodeBegin(0, t)
    \/ \E t \in Threads : EncodeEnd(0, t)
    \/ BatchReturn(0)

Spec == Init /\ [][Next]_vars

\* ------------------------------------------------------------------ host calls
\* One host thread calls the operations of processor 0 one after the other:
\* the single-frame operations, reset_stats() and the two batch calls.
OpsFrames == {GoodA, ZeroWidth, Gray, TwoChannel, Bgra}

\* The (width, height) arguments of resize_frame.
ResizeTargets == {<<8, 4>>, <<0, 4>>, <<8, 0 - 1>>}

\* The (frame, config) arguments of the preprocessing calls: every pair whose
\* mean/std loop stays inside the vector that cv::split filled (SplitInRange).
PreprocessInputs ==
    {fc \in OpsFrames \X PreprocessConfigs :
        LET r == PreprocessInternal(fc[1], fc[2])
        IN ~(r.ok /\ r.mat.values = "undefined")}

\* The frame lists of the batch calls.
OpsFrameLists ==
    {<<>>, <<GoodA, GoodB>>, <<GoodA, TwoChannel, GoodB>>, <<Bgra, TwoChannel>>,
     <<Gray, ZeroWidth>>}

\* The Mats encode_jpeg_internal(frame) hands to tjCompress2: one, or none when
\* the frame is rejected before the codec.
CodecCalls(frame) ==
    LET pr == EncodePrepare(frame) IN IF pr.ok THEN <<pr.mat>> ELSE <<>>

\* The host thread is inside no call and makes another one.
HostMayCall == alive /\ bpc[0] # "running" /\ ncall < MaxCalls

\* The vector a batch call returned goes out of scope.
DropBatch ==
    /\ bpc' = [bpc EXCEPT ![0] = "idle"]
    /\ op' = [op EXCEPT ![0] = "none"]
    /\ frames' = [frames EXCEPT ![0] = <<>>]
    /\ results' = [results EXCEPT ![0] = <<>>]
    /\ claimed' = [claimed EXCEPT ![0] = {}]
    /\ tlast' = [tlast EXCEPT ![0] = [t \in Threads |-> 0]]
    /\ writes' = [writes EXCEPT ![0] = <<>>]
    /\ returned' = [returned EXCEPT ![0] = <<>>]
    /\ UNCHANGED <<num_threads_, tpc, tcur, tlocal, thandle, raced>>

\* What the history keeps of a call, taken at its return.
CallRecord(name, frame, width, height, config, result, pre, codec) ==
    [name |-> name, frame |-> frame, width |-> width, height |-> height,
     config |-> config, result |-> result, pre |-> pre, codec |-> codec,
     fp0 |-> frames_processed_[0], be0 |-> bytes_encoded_[0],
     stats |-> IF result.success THEN "locked" ELSE "untouched"]

\* Mutant of Incremented: a call counts its frame whether or not it succeeded.
IncrementedAlways(n, success) == n + 1

\* std::lock_guard lock(stats_mutex_); frames_processed_++; the last statements
\* of the try block, reached only when nothing threw.
Incremented(n, success) == IF success THEN n + 1 ELSE n

\* processor.resize_frame(frame, width, height)
ResizeFrame(frame, width, height) ==
    /\ HostMayCall
    /\ LET result == ResizeFrameResult(frame, width, height)
       IN /\ frames_processed_' =
                [frames_processed_ EXCEPT ![0] = Incremented(@, result.success)]
          /\ call' = CallRecord("resize_frame", frame, width, height,
                                DefaultPreprocessConfig, result, Ok(frame), <<>>)
    /\ since' = SinceOther
    /\ ncall' = ncall + 1
    /\ UNCHANGED hvars
    /\ DropBatch
    /\ UNCHANGED bytes_encoded_
    /\ UNCHANGED pvars

\* processor.preprocess_for_inference(frame, config)
CallPreprocessForInference(frame, config) ==
    /\ HostMayCall
    /\ LET result == PreprocessForInference(frame, config)
       IN /\ frames_processed_' =
                [frames_processed_ EXCEPT ![0] = Incremented(@, result.success)]
          /\ call' = CallRecord("preprocess_for_inference", frame, 0, 0, config, result,
                                PreprocessInternal(frame, config), <<>>)
    /\ since' = SinceOther
    /\ ncall' = ncall + 1
    /\ UNCHANGED hvars
    /\ DropBatch
    /\ UNCHANGED bytes_encoded_
    /\ UNCHANGED pvars

\* The counters after encode_jpeg_internal made the codec calls `codec` (none or
\* one): frames_processed_++ and bytes_encoded_ += jpeg_size when tjCompress2
\* returned 0.
EncodeCounted(codec) ==
    LET c == IF codec = <<>> THEN [ret |-> 0 - 1, buf |-> <<>>, size |-> 0]
             ELSE TjCompress2(codec[1])
    IN /\ frames_processed_' =
             [frames_processed_ EXCEPT ![0] = Incremented(@, c.ret = 0)]
       /\ bytes_encoded_' = [bytes_encoded_ EXCEPT ![0] = @ + EncodedBytes(c)]

\* processor.encode_jpeg(frame, config)
EncodeJpeg(frame) ==
    /\ HostMayCall
    /\ LET result == EncodeJpegInternal(frame)
       IN /\ EncodeCounted(CodecCalls(frame))
          /\ call' = CallRecord("encode_jpeg", frame, 0, 0, DefaultPreprocessConfig,
                                result, Ok(frame), CodecCalls(frame))
          /\ since' = SinceEncodes(<<result>>)
    /\ ncall' = ncall + 1
    /\ UNCHANGED hvars
    /\ DropBatch
    /\ UNCHANGED pvars

\* processor.preprocess_and_encode(frame, preproc_config, jpeg_config)
PreprocessAndEncode(frame, config) ==
    /\ HostMayCall
    /\ LET pre == PreprocessInternal(frame, config)
           result == PreprocessAndEncodeResult(frame, config)
           input == EncodeInput(pre, frame)
           codec == IF input = <<>> THEN <<>> ELSE CodecCalls(input[1])
       IN /\ EncodeCounted(codec)
          /\ call' = CallRecord("preprocess_and_encode", frame, 0, 0, config, result,
                                pre, codec)
          /\ since' = SinceEncodes(<<result>>)
    /\ ncall' = ncall + 1
    /\ UNCHANGED hvars
    /\ DropBatch
    /\ UNCHANGED pvars

\* The (frame, config) arguments with which the mean/std loop of
\* preprocess_internal reads and assigns channels[1] and channels[2] past the
\* end of the vector cv::split filled: a frame of fewer than three channels.
\* The behaviour is undefined.
UndefinedInputs == (OpsFrames \X PreprocessConfigs) \ PreprocessInputs

\* What preprocess_internal can do on such arguments and still come back: hand
\* on a Mat built from whatever lay behind the vector, or throw from an OpenCV
\* call that rejects what it found there.
OutOfRangeOutcomes(frame, config) ==
    {PreprocessInternal(frame, config), Throw("cv::Exception: out-of-range channel")}

\* processor.preprocess_for_inference or processor.preprocess_and_encode on
\* arguments of undefined behaviour, ending in a return.
CallPreprocessUndefined(name, frame, config) ==
    /\ HostMayCall
    /\ <<frame, config>> \in UndefinedInputs
    /\ \E pre \in OutOfRangeOutcomes(frame, config) :
          LET input == EncodeInput(pre, frame)
              codec == IF name = "preprocess_for_inference" \/ input = <<>> THEN <<>>
                       ELSE CodecCalls(input[1])
              result == IF name = "preprocess_for_inference" THEN PreprocessedResult(pre)
                        ELSE EncodeAfter(pre, frame)
          IN /\ IF name = "preprocess_for_inference"
                THEN /\ frames_processed_' =
                           [frames_processed_ EXCEPT ![0] = Incremented(@, result.success)]
                     /\ UNCHANGED bytes_encoded_
                ELSE EncodeCounted(codec)
             /\ call' = CallRecord(name, frame, 0, 0, config, result, pre, codec)
             /\ since' = IF name = "preprocess_for_inference" THEN SinceOther
                         ELSE SinceEncodes(<<result>>)
    /\ ncall' = ncall + 1
    /\ UNCHANGED hvars
    /\ DropBatch
    /\ UNCHANGED pvars

\* The same call ending in the other way undefined behaviour ends: the access
\* past the vector brings the process down, and no result is returned.
CallPreprocessCrashes(name, frame, config) ==
    /\ HostMayCall
    /\ <<frame, config>> \in UndefinedInputs
    /\ alive' = FALSE
    /\ call' = CallRecord(name, frame, 0, 0, config, EmptySlot, Ok(frame), <<>>)
    /\ ncall' = ncall + 1
    /\ DropBatch
    /\ UNCHANGED <<frames_processed_, bytes_encoded_, since, stats_mutex_, cpc, cjob>>
    /\ UNCHANGED pvars

\* frames_processed_ = 0; bytes_encoded_ = 0;
ResetValue(n) == 0

\* processor.reset_stats(), under stats_mutex_.
ResetStats ==
    /\ HostMayCall
    /\ frames_processed_' = [frames_processed_ EXCEPT ![0] = ResetValue(@)]
    /\ bytes_encoded_' = [bytes_encoded_ EXCEPT ![0] = ResetValue(@)]
    /\ call' = [CallRecord("reset_stats", GoodA, 0, 0, DefaultPreprocessConfig,
                           EmptySlot, Ok(GoodA), <<>>) EXCEPT !.stats = "locked"]
    /\ since' = [reset |-> TRUE, encodes |-> 0, bytes |-> 0, onlyEncodes |-> TRUE]
    /\ ncall' = ncall + 1
    /\ UNCHANGED hvars
    /\ DropBatch
    /\ UNCHANGED pvars

\* processor.batch_preprocess(frames, config): entry into the call.
HostBatchPreprocess(fs) ==
    /\ HostMayCall
    /\ BeginBatch(0, "preprocess", fs)
    /\ call' = CallRecord("batch_preprocess", GoodA, 0, 0, DefaultPreprocessConfig,
                          EmptySlot, Ok(GoodA), <<>>)
    /\ ncall' = ncall + 1
    /\ UNCHANGED hvars
    /\ UNCHANGED <<num_threads_, frames_processed_, bytes_encoded_, since>>
    /\ UNCHANGED pvars

\* processor.batch_encode_jpeg(frames, config): entry into the call.
HostBatchEncodeJpeg(fs) ==
    /\ HostMayCall
    /\ BeginBatch(0, "encode", fs)
    /\ call' = CallRecord("batch_encode_jpeg", GoodA, 0, 0, DefaultPreprocessConfig,
                          EmptySlot, Ok(GoodA), <<>>)
    /\ ncall' = ncall + 1
    /\ UNCHANGED hvars
    /\ UNCHANGED <<num_threads_, frames_processed_, bytes_encoded_, since>>
    /\ UNCHANGED pvars

OpsNext ==
    \/ \E f \in OpsFrames, wh \in ResizeTargets : ResizeFrame(f, wh[1], wh[2])
    \/ \E fc \in PreprocessInputs : CallPreprocessForInference(fc[1], fc[2])
    \/ \E f \in OpsFrames : EncodeJpeg(f)
    \/ \E fc \in PreprocessInputs : PreprocessAndEncode(fc[1], fc[2])
    \/ \E fc \in UndefinedInputs, name \in {"preprocess_for_inference", "preprocess_and_encode"} :
          CallPreprocessUndefined(name, fc[1], fc[2])
    \/ \E fc \in UndefinedInputs, name \in {"preprocess_for_inference", "preprocess_and_encode"} :
          CallPreprocessCrashes(name, fc[1], fc[2])
    \/ ResetStats
    \/ \E fs \in OpsFrameLists : HostBatchPreprocess(fs)
    \/ \E fs \in OpsFrameLists : HostBatchEncodeJpeg(fs)
    \/ \E t \in Threads : PreprocessIteration(0, t)
    \/ \E t \in Threads : PushBack(0, t)
    \/ \E t \in Threads : EncodeBegin(0, t)
    \/ \E t \in Threads : EncodeEnd(0, t)
    \/ BatchReturn(0)

OpsSpec == Init /\ [][OpsNext]_vars

\* ------------------------------------------------------------------ concurrent callers
\* Several threads call the operations of processor 0 at the same time. Each
\* operation is followed statement by statement around stats_mutex_: the work
\* of its try block (transforms, codec, copies), then the lock_guard, the
\* counter statements under it, and the release at the end of the scope.
\* The jobs a caller thread can start: the operation and its arguments.
Job(name, frame, width, height, config) ==
    [NoJob EXCEPT !.name = name, !.frame = frame, !.width = width, !.height = height,
                  !.config = config]

Jobs ==
    {Job("resize_frame", f, wh[1], wh[2], DefaultPreprocessConfig) :
        f \in {GoodA, ZeroWidth}, wh \in ResizeTargets}
    \cup {Job("preprocess_for_inference", f, 0, 0, DefaultPreprocessConfig) :
             f \in {GoodA, ZeroWidth}}
    \cup {Job("encode_jpeg", f, 0, 0, DefaultPreprocessConfig) : f \in {GoodA, TwoChannel}}
    \cup {Job("preprocess_and_encode", f, 0, 0, PlainConfig) : f \in {GoodA, ZeroWidth}}
    \cup {Job(name, GoodA, 0, 0, DefaultPreprocessConfig) :
             name \in {"reset_stats", "get_frames_processed", "get_bytes_encoded"}}

Getters == {"get_frames_processed", "get_bytes_encoded"}

\* The first position of an operation: reset_stats starts at its lock_guard, a
\* getter at its read, every other operation at the work of its try block.
FirstPosition(name) ==
    IF name = "reset_stats" THEN "lock"
    ELSE IF name \in Getters THEN "read"
    ELSE "work"

\* The callers inside the work of an encode, where tjCompress2 runs on the
\* processor's one jpeg_compressor_.
InCodec(c) == cpc[c] = "work" /\ cjob[c].name \in {"encode_jpeg", "preprocess_and_encode"}

\* A thread calls an operation of the processor.
CallerEnters(c, job) ==
    /\ alive /\ ncall < MaxCalls
    /\ cpc[c] = "out"
    /\ cpc' = [cpc EXCEPT ![c] = FirstPosition(job.name)]
    /\ LET others == {d \in Callers \ {c} : InCodec(d)}
           overlap == job.name \in {"encode_jpeg", "preprocess_and_encode"} /\ others # {}
       IN cjob' = [d \in Callers |->
                     IF d = c THEN [job EXCEPT !.raced = overlap]
                     ELSE IF overlap /\ d \in others THEN [cjob[d] EXCEPT !.raced = TRUE]
                     ELSE cjob[d]]
    /\ ncall' = ncall + 1
    /\ UNCHANGED <<call, since, alive, stats_mutex_>>
    /\ UNCHANGED <<bvars, pvars>>

\* What the work of a job's try block comes to: whether it reached the
\* lock_guard (nothing threw) and the jpeg_size it has for bytes_encoded_.
WorkOutcomes(job) ==
    IF job.name = "resize_frame"
    THEN {[success |-> CvResize(job.frame, job.width, job.height).ok, size |-> 0]}
    ELSE IF job.name = "preprocess_for_inference"
    THEN {[success |-> PreprocessInternal(job.frame, job.config).ok, size |-> 0]}
    ELSE LET pre == IF job.name = "encode_jpeg" THEN Ok(job.frame)
                    ELSE PreprocessInternal(job.frame, job.config)
             codec == IF EncodeInput(pre, job.frame) = <<>> THEN <<>>
                      ELSE CodecCalls(pre.mat)
         IN IF codec = <<>> THEN {[success |-> FALSE, size |-> 0]}
            ELSE {[success |-> (c.ret = 0), size |-> EncodedBytes(c)] :
                     c \in (IF job.raced THEN TjCompress2Raced(codec[1])
                            ELSE {TjCompress2(codec[1])})}

\* Mutant of AfterWork: the counter statements are reached without the
\* lock_guard.
AfterWorkUnlocked(job) == "inc_frames"

\* Where a try block goes once its work is done: std::lock_guard lock(stats_mutex_).
AfterWork(job) == "lock"

\* The work of the try block runs to its end: the caller goes on to the
\* lock_guard, or, an exception having been caught, returns its failed result.
CallerWorks(c) ==
    /\ cpc[c] = "work"
    /\ \E o \in WorkOutcomes(cjob[c]) :
          /\ cjob' = [cjob EXCEPT ![c].success = o.success, ![c].size = o.size]
          /\ cpc' = [cpc EXCEPT ![c] = IF o.success THEN AfterWork(cjob[c]) ELSE "out"]
    /\ UNCHANGED <<call, since, ncall, alive, stats_mutex_>>
    /\ UNCHANGED <<bvars, pvars>>

\* std::lock_guard<std::mutex> lock(stats_mutex_): the caller waits until the
\* mutex is free and takes it.
CallerLocks(c) ==
    /\ cpc[c] = "lock"
    /\ stats_mutex_ = 0
    /\ stats_mutex_' = c
    /\ cpc' = [cpc EXCEPT ![c] = IF cjob[c].name = "reset_stats" THEN "zero_frames"
                                 ELSE "inc_frames"]
    /\ UNCHANGED <<call, since, ncall, alive, cjob>>
    /\ UNCHANGED <<bvars, pvars>>

\* frames_processed_++;
CallerIncFrames(c) ==
    /\ cpc[c] = "inc_frames"
    /\ frames_processed_' = [frames_processed_ EXCEPT ![0] = @ + 1]
    /\ cpc' = [cpc EXCEPT ![c] = IF cjob[c].name \in {"encode_jpeg", "preprocess_and_encode"}
                                 THEN "inc_bytes" ELSE "unlock"]
    /\ UNCHANGED <<num_threads_, bytes_encoded_, bpc, op, frames, results, claimed, tpc,
                   tcur, tlast, tlocal, thandle, raced, writes, returned>>
    /\ UNCHANGED <<call, since, ncall, alive, stats_mutex_, cjob>>
    /\ UNCHANGED pvars

\* bytes_encoded_ += jpeg_size;
CallerIncBytes(c) ==
    /\ cpc[c] = "inc_bytes"
    /\ bytes_encoded_' = [bytes_encoded_ EXCEPT ![0] = @ + cjob[c].size]
    /\ cpc' = [cpc EXCEPT ![c] = "unlock"]
    /\ UNCHANGED <<num_threads_, frames_processed_, bpc, op, frames, results, claimed, tpc,
                   tcur, tlast, tlocal, thandle, raced, writes, returned>>
    /\ UNCHANGED <<call, since, ncall, alive, stats_mutex_, cjob>>
    /\ UNCHANGED pvars

\* reset_stats: frames_processed_ = 0;
CallerZeroFrames(c) ==
    /\ cpc[c] = "zero_frames"
    /\ frames_processed_' = [frames_processed_ EXCEPT ![0] = ResetValue(@)]
    /\ cpc' = [cpc EXCEPT ![c] = "zero_bytes"]
    /\ UNCHANGED <<num_threads_, bytes_encoded_, bpc, op, frames, results, claimed, tpc,
                   tcur, tlast, tlocal, thandle, raced, writes, returned>>
    /\ UNCHANGED <<call, since, ncall, alive, stats_mutex_, cjob>>
    /\ UNCHANGED pvars

\* reset_stats: bytes_encoded_ = 0;
CallerZeroBytes(c) ==
    /\ cpc[c] = "zero_bytes"
    /\ bytes_encoded_' = [bytes_encoded_ EXCEPT ![0] = ResetValue(@)]
    /\ cpc' = [cpc EXCEPT ![c] = "unlock"]
    /\ UNCHANGED <<num_threads_, frames_processed_, bpc, op, frames, results, claimed, tpc,
                   tcur, tlast, tlocal, thandle, raced, writes, returned>>
    /\ UNCHANGED <<call, since, ncall, alive, stats_mutex_, cjob>>
    /\ UNCHANGED pvars

\* The end of the lock_guard's scope releases stats_mutex_, which the caller
\* holds; the operation returns.
CallerUnlocks(c) ==
    /\ cpc[c] = "unlock"
    /\ stats_mutex_' = IF stats_mutex_ = c THEN 0 ELSE stats_mutex_
    /\ cpc' = [cpc EXCEPT ![c] = "out"]
    /\ UNCHANGED <<call, since, ncall, alive, cjob>>
    /\ UNCHANGED <<bvars, pvars>>

\* get_frames_processed() / get_bytes_encoded(): the counter is read without
\* stats_mutex_. A read made while another thread is inside the critical
\* section races with its write and may return anything.
CallerReads(c) ==
    /\ cpc[c] = "read"
    /\ LET now == IF cjob[c].name = "get_frames_processed" THEN frames_processed_[0]
                  ELSE bytes_encoded_[0]
       IN \E v \in (0 .. MaxCalls) \cup {now} :
             /\ stats_mutex_ = 0 => v = now
             /\ cjob' = [cjob EXCEPT ![c].read = v]
    /\ cpc' = [cpc EXCEPT ![c] = "out"]
    /\ UNCHANGED <<call, since, ncall, alive, stats_mutex_>>
    /\ UNCHANGED <<bvars, pvars>>

StatsNext ==
    \/ \E c \in Callers, job \in Jobs : CallerEnters(c, job)
    \/ \E c \in Callers : CallerWorks(c)
    \/ \E c \in Callers : CallerLocks(c)
    \/ \E c \in Callers : CallerIncFrames(c)
    \/ \E c \in Callers : CallerIncBytes(c)
    \/ \E c \in Callers : CallerZeroFrames(c)
    \/ \E c \in Callers : CallerZeroBytes(c)
    \/ \E c \in Callers : CallerUnlocks(c)
    \/ \E c \in Callers : CallerReads(c)

StatsSpec == Init /\ [][StatsNext]_vars

\* ------------------------------------------------------------------ pool
\* std::queue<std::function<void()>> tasks_: a task is named by its id, the
\* closure's captures are submitted[id].
TasksEmplace(q, id) == Append(q, id)
\* Mutant of TasksFront: the newest task is taken instead of the oldest.
TasksBack(q) == q[Len(q)]
TasksFront(q) == Head(q)
TasksPop(q) == Tail(q)

\* FrameProcessorPool(num_threads): stop_ is false, num_threads workers wait.
\* Every task constructs `FrameProcessor processor;`, whose num_threads_ is
\* hardware_concurrency().
PoolInit ==
    /\ \E n \in 0 .. MaxWorkers :
          /\ nworkers = n
          /\ wpc = [w \in Workers |-> IF w <= n THEN "wait" ELSE "exited"]
          /\ joinable = [w \in Workers |-> w <= n]
    /\ \E h \in 1 .. MaxThreads :
          /\ hw = h
          /\ num_threads_ = [p \in Ctx |-> h]
    /\ stop_ = FALSE /\ tasks_ = <<>>
    /\ wtask = [w \in Workers |-> 0]
    /\ submitted = <<>> /\ nsub = 0
    /\ promise = [k \in TaskIds |-> <<>>]
    /\ spc = "out" /\ sidx = 0 /\ ncalls = 0
    /\ deqOrder = <<>> /\ preStop = {} /\ postStop = {} /\ drained = {}
    /\ joins = [w \in Workers |-> 0]
    /\ BatchIdle
    /\ NoCalls

\* The block under queue_mutex_ shared by submit_batch and submit_encode_batch:
\* the closure, with its captures, is emplaced at the back of tasks_. stop_ is
\* not read.
Enqueue(o, fs) ==
    /\ nsub' = nsub + 1
    /\ submitted' = Append(submitted, [op |-> o, frames |-> fs])
    /\ tasks_' = TasksEmplace(tasks_, nsub + 1)
    /\ preStop' = IF stop_ THEN preStop ELSE preStop \cup {nsub + 1}
    /\ postStop' = IF stop_ THEN postStop \cup {nsub + 1} ELSE postStop

\* submit_batch: make the promise, enqueue the closure calling
\* batch_preprocess, notify_one, return the future.
SubmitBatch(fs) ==
    /\ nsub < MaxSubmits
    /\ Enqueue("preprocess", fs)
    /\ UNCHANGED <<nworkers, hw, stop_, wpc, wtask, joinable, promise, spc, sidx, ncalls,
                   deqOrder, drained, joins>>
    /\ UNCHANGED bvars
    /\ UNCHANGED ovars

\* submit_encode_batch: the same, the closure calling batch_encode_jpeg.
SubmitEncodeBatch(fs) ==
    /\ nsub < MaxSubmits
    /\ Enqueue("encode", fs)
    /\ UNCHANGED <<nworkers, hw, stop_, wpc, wtask, joinable, promise, spc, sidx, ncalls,
                   deqOrder, drained, joins>>
    /\ UNCHANGED bvars
    /\ UNCHANGED ovars

\* worker_thread: the wait's predicate.
WorkerWakes == stop_ \/ tasks_ # <<>>

\* Mutant of WorkerMayExit: the worker returns as soon as stop_ is set.
WorkerMayExitOnStop == stop_

\* worker_thread: if (stop_ && tasks_.empty()) return;
WorkerMayExit == stop_ /\ tasks_ = <<>>

\* worker_thread, under queue_mutex_: the wait is over and the thread returns.
WorkerExit(w) ==
    /\ w <= nworkers /\ wpc[w] = "wait"
    /\ WorkerWakes
    /\ WorkerMayExit
    /\ wpc' = [wpc EXCEPT ![w] = "exited"]
    /\ UNCHANGED <<nworkers, hw, stop_, tasks_, wtask, joinable, submitted, nsub, promise,
                   spc, sidx, ncalls, deqOrder, preStop, postStop, drained, joins>>
    /\ UNCHANGED bvars
    /\ UNCHANGED ovars

\* worker_thread, under queue_mutex_: the wait is over, the front task is moved
\* out and popped; then task() starts: it constructs its FrameProcessor and
\* enters the batch call on the captured frames.
WorkerDequeue(w) ==
    /\ w <= nworkers /\ wpc[w] = "wait"
    /\ WorkerWakes
    /\ ~WorkerMayExit
    /\ LET id == TasksFront(tasks_)
       IN /\ wtask' = [wtask EXCEPT ![w] = id]
          /\ deqOrder' = Append(deqOrder, id)
          /\ drained' = IF stop_ THEN drained \cup {id} ELSE drained
          /\ BeginBatch(w, submitted[id].op, submitted[id].frames)
    /\ tasks_' = TasksPop(tasks_)
    /\ wpc' = [wpc EXCEPT ![w] = "run"]
    /\ num_threads_' = [num_threads_ EXCEPT ![w] = hw]
    /\ frames_processed_' = [frames_processed_ EXCEPT ![w] = 0]
    /\ bytes_encoded_' = [bytes_encoded_ EXCEPT ![w] = 0]
    /\ UNCHANGED <<nworkers, hw, stop_, joinable, submitted, nsub, promise, spc, sidx,
                   ncalls, preStop, postStop, joins>>
    /\ UNCHANGED ovars

\* The end of a task: the batch call passes its barrier and returns results,
\* promise->set_value(std::move(results)) stores them, the task's
\* FrameProcessor is destroyed and the worker goes back to the wait.
PromiseSetValue(w) ==
    /\ w <= nworkers /\ wpc[w] = "run"
    /\ BarrierPassed(w)
    /\ promise' = [promise EXCEPT ![wtask[w]] = <<results[w]>>]
    /\ wpc' = [wpc EXCEPT ![w] = "wait"]
    /\ wtask' = [wtask EXCEPT ![w] = 0]
    /\ bpc' = [bpc EXCEPT ![w] = "idle"]
    /\ op' = [op EXCEPT ![w] = "none"]
    /\ frames' = [frames EXCEPT ![w] = <<>>]
    /\ results' = [results EXCEPT ![w] = <<>>]
    /\ writes' = [writes EXCEPT ![w] = <<>>]
    /\ returned' = [returned EXCEPT ![w] = <<>>]
    /\ claimed' = [claimed EXCEPT ![w] = {}]
    /\ tlast' = [tlast EXCEPT ![w] = [t \in Threads |-> 0]]
    /\ frames_processed_' = [frames_processed_ EXCEPT ![w] = 0]
    /\ bytes_encoded_' = [bytes_encoded_ EXCEPT ![w] = 0]
    /\ UNCHANGED <<num_threads_, tpc, tcur, tlocal, thandle, raced>>
    /\ UNCHANGED <<nworkers, hw, stop_, tasks_, joinable, submitted, nsub, spc, sidx,
                   ncalls, deqOrder, preStop, postStop, drained, joins>>
    /\ UNCHANGED ovars

\* shutdown(), first block: stop_ = true under queue_mutex_, then notify_all.
ShutdownBegin ==
    /\ spc = "out" /\ ncalls < MaxShutdowns
    /\ stop_' = TRUE
    /\ spc' = "join"
    /\ sidx' = 1
    /\ UNCHANGED <<nworkers, hw, tasks_, wpc, wtask, joinable, submitted, nsub, promise,
                   ncalls, deqOrder, preStop, postStop, drained, joins>>
    /\ UNCHANGED bvars
    /\ UNCHANGED ovars

\* Mutant of ShouldJoin: every worker is joined, joinable or not.
ShouldJoinAlways(w) == TRUE

\* shutdown(): if (worker.joinable())
ShouldJoin(w) == joinable[w]

\* shutdown(), one turn of the join loop: join() returns once the worker's
\* thread function has returned; a worker that is not joinable is passed over.
ShutdownJoin ==
    /\ spc = "join" /\ sidx <= nworkers
    /\ IF ShouldJoin(sidx)
       THEN /\ wpc[sidx] = "exited"
            /\ joinable' = [joinable EXCEPT ![sidx] = FALSE]
            /\ joins' = [joins EXCEPT ![sidx] = @ + 1]
       ELSE UNCHANGED <<joinable, joins>>
    /\ sidx' = sidx + 1
    /\ UNCHANGED <<nworkers, hw, stop_, tasks_, wpc, wtask, submitted, nsub, promise, spc,
                   ncalls, deqOrder, preStop, postStop, drained>>
    /\ UNCHANGED bvars
    /\ UNCHANGED ovars

\* shutdown() returns.
ShutdownReturn ==
    /\ spc = "join" /\ sidx > nworkers
    /\ spc' = "out"
    /\ sidx' = 0
    /\ ncalls' = ncalls + 1
    /\ UNCHANGED <<nworkers, hw, stop_, tasks_, wpc, wtask, joinable, submitted, nsub,
                   promise, deqOrder, preStop, postStop, drained, joins>>
    /\ UNCHANGED bvars
    /\ UNCHANGED ovars

PoolNext ==
    \/ \E fs \in PoolFrameLists : SubmitBatch(fs)
    \/ \E fs \in PoolFrameLists : SubmitEncodeBatch(fs)
    \/ \E w \in Workers : WorkerDequeue(w)
    \/ \E w \in Workers : WorkerExit(w)
    \/ \E w \in Workers : PromiseSetValue(w)
    \/ \E w \in Workers, t \in Threads : PreprocessIteration(w, t)
    \/ \E w \in Workers, t \in Threads : PushBack(w, t)
    \/ \E w \in Workers, t \in Threads : EncodeBegin(w, t)
    \/ \E w \in Workers, t \in Threads : EncodeEnd(w, t)
    \/ ShutdownBegin
    \/ ShutdownJoin
    \/ ShutdownReturn

PoolSpec == PoolInit /\ [][PoolNext]_vars

\* Everything worker w's thread, and the team threads of the batch it runs, can do.
WorkerRuns(w) ==
    \/ WorkerDequeue(w)
    \/ WorkerExit(w)
    \/ PromiseSetValue(w)
    \/ \E t \in Threads :
          \/ PreprocessIteration(w, t)
          \/ PushBack(w, t)
          \/ EncodeBegin(w, t)
          \/ EncodeEnd(w, t)

\* The operating system schedules runnable threads: a worker that can take a
\* step (itself or through its batch's team) eventually takes one, and so does
\* the thread inside shutdown().
PoolFairness ==
    /\ \A w \in Workers : WF_vars(WorkerRuns(w))
    /\ WF_vars(ShutdownJoin \/ ShutdownReturn)

PoolFairSpec == PoolSpec /\ PoolFairness

\* ------------------------------------------------------------------ pool, failing construction
\* worker_thread takes the front task as in WorkerDequeue and calls task(); the
\* task's `FrameProcessor processor;` finds tjInitCompress() returning NULL and
\* throws std::runtime_error. Neither the task nor worker_thread has a handler:
\* the exception leaves the thread function, std::terminate is called and the
\* process ends, the task's promise never having been set.
WorkerConstructFails(w) ==
    /\ w <= nworkers /\ wpc[w] = "wait"
    /\ WorkerWakes
    /\ ~WorkerMayExit
    /\ LET id == TasksFront(tasks_)
       IN /\ wtask' = [wtask EXCEPT ![w] = id]
          /\ deqOrder' = Append(deqOrder, id)
          /\ drained' = IF stop_ THEN drained \cup {id} ELSE drained
    /\ tasks_' = TasksPop(tasks_)
    /\ wpc' = [wpc EXCEPT ![w] = "terminated"]
    /\ alive' = FALSE
    /\ UNCHANGED <<nworkers, hw, stop_, joinable, submitted, nsub, promise, spc, sidx,
                   ncalls, preStop, postStop, joins>>
    /\ UNCHANGED <<call, since, ncall, stats_mutex_, cpc, cjob>>
    /\ UNCHANGED bvars

\* The pool in a process where tjInitCompress() can fail; nothing runs once
\* the process has ended.
PoolFailNext ==
    \/ \E fs \in PoolFrameLists : alive /\ SubmitBatch(fs)
    \/ \E fs \in PoolFrameLists : alive /\ SubmitEncodeBatch(fs)
    \/ \E w \in Workers : alive /\ WorkerDequeue(w)
    \/ \E w \in Workers : alive /\ WorkerConstructFails(w)
    \/ \E w \in Workers : alive /\ WorkerExit(w)
    \/ \E w \in Workers : alive /\ PromiseSetValue(w)
    \/ \E w \in Workers, t \in Threads : alive /\ PreprocessIteration(w, t)
    \/ \E w \in Workers, t \in Threads : alive /\ PushBack(w, t)
    \/ \E w \in Workers, t \in Threads : alive /\ EncodeBegin(w, t)
    \/ \E w \in Workers, t \in Threads : alive /\ EncodeEnd(w, t)
    \/ alive /\ ShutdownBegin
    \/ alive /\ ShutdownJoin
    \/ alive /\ ShutdownReturn

PoolFailSpec == PoolInit /\ [][PoolFailNext]_vars

\* ------------------------------------------------------------------ properties
\* What one thread alone, taking the frames in order, returns for a batch.
SequentialBatch(o, fs) ==
    [i \in 1 .. Len(fs) |->
        IF o = "preprocess" THEN PreprocessForInference(fs[i], DefaultPreprocessConfig)
        ELSE EncodeJpegInternal(fs[i])]

Returned(p, o) == bpc[p] = "returned" /\ op[p] = o

\* C1: batch_preprocess returns, at every index i, the result of
\* preprocess_for_inference applied to frames[i], under every scheduling of the
\* team threads.
C1_PreprocessKeepsInputOrder ==
    Returned(0, "preprocess") =>
        /\ Len(returned[0]) = Len(frames[0])
        /\ \A i \in 1 .. Len(frames[0]) :
              returned[0][i] = PreprocessForInference(frames[0][i], DefaultPreprocessConfig)

\* C2: batch_encode_jpeg returns, at every index i, the result of encoding
\* frames[i]; every slot of the pre-sized vector is assigned exactly once, by
\* the iteration of its own index.
C2_EncodeFillsEachSlotWithItsFrame ==
    Returned(0, "encode") =>
        /\ returned[0] = SequentialBatch("encode", frames[0])
        /\ \A i \in 1 .. Len(frames[0]) : writes[0][i] = 1

\* C3: a batch call (batch_preprocess or batch_encode_jpeg) on N frames returns
\* exactly N results, whichever frames fail.
C3_BatchReturnsOneResultPerFrame ==
    bpc[0] = "returned" => Len(returned[0]) = Len(frames[0])

\* A returned batch of both kinds of outcome: a failed frame among valid ones.
C3_Witness ==
    /\ Returned(0, "preprocess")
    /\ Len(frames[0]) = MaxFrames
    /\ \E i \in 1 .. Len(returned[0]) : ~returned[0][i].success
    /\ \E i \in 1 .. Len(returned[0]) : returned[0][i].success

\* C4: during batch_encode_jpeg no tjhandle is inside tjCompress2 on behalf of
\* two team threads at the same time.
C4_NoHandleUsedByTwoThreads ==
    \A t \in Threads, u \in Threads :
        (t # u /\ tpc[0][t] = "compress" /\ tpc[0][u] = "compress")
            => thandle[0][t] # thandle[0][u]

\* C5: in a batch whose frame j is malformed (zero width) and whose other frames
\* are valid, the result at index j, and only it, has success = false, and every
\* other index i holds the successful result of frames[i].
C5_FailureStaysInItsSlot ==
    \A j \in 1 .. Len(frames[0]) :
        ( /\ bpc[0] = "returned"
          /\ MatEmpty(frames[0][j])
          /\ \A i \in 1 .. Len(frames[0]) : i # j => ~MatEmpty(frames[0][i]) )
        => /\ Len(returned[0]) = Len(frames[0])
           /\ \A i \in 1 .. Len(frames[0]) :
                 /\ returned[0][i].success = (i # j)
                 /\ i # j => returned[0][i] = SequentialBatch(op[0], frames[0])[i]

\* C6: the value of the future of submission k is the result list a sequential
\* execution of batch k alone produces.
C6_FutureHoldsSequentialResult ==
    \A k \in 1 .. nsub :
        promise[k] # <<>> =>
            promise[k][1] = SequentialBatch(submitted[k].op, submitted[k].frames)

\* C7: once stop_ is set, no submission adds a task to the queue.
C7_NoSubmissionAfterStop == postStop = {}

Completed(k) == promise[k] # <<>>

\* C8, safety: a worker returns from worker_thread only with stop_ set and the
\* queue empty; a dequeued task is not taken from its worker before it has set
\* its promise; shutdown() returns only once every worker has returned and every
\* task enqueued before stop_ was set has run to completion.
C8_Step ==
    /\ \A w \in Workers :
          /\ (wpc[w] = "wait" /\ wpc'[w] = "exited") => (stop_ /\ tasks_ = <<>>)
          /\ (wpc[w] = "run" /\ wpc'[w] # "run") => promise'[wtask[w]] # <<>>
    /\ ncalls' > ncalls =>
          /\ \A w \in Workers : wpc[w] = "exited"
          /\ nworkers >= 1 => \A k \in preStop : Completed(k)

C9_DequeueInSubmissionOrder ==
    /\ \A n \in 1 .. Len(deqOrder) : deqOrder[n] = n
    /\ tasks_ = [n \in 1 .. (nsub - Len(deqOrder)) |-> Len(deqOrder) + n]

\* Two submissions dequeued by two workers that are both running their task.
C9_Witness ==
    /\ Len(deqOrder) >= 2
    /\ \E w \in Workers, v \in Workers : w # v /\ wpc[w] = "run" /\ wpc[v] = "run"

\* C10, per step: a step of a shutdown() call made after a completed one joins
\* no worker and changes neither stop_, nor which workers are joinable, nor the
\* workers, nor the queue.
C10_Step ==
    (ncalls >= 1 /\ (spc' # spc \/ sidx' # sidx)) =>
        /\ stop_ /\ stop_'
        /\ joinable' = joinable
        /\ joins' = joins
        /\ wpc' = wpc
        /\ tasks_' = tasks_

\* C10: shutdown() called again after a completed shutdown() never waits (its
\* next step is always enabled), and its steps leave the pool as it was.
C10_ShutdownIdempotent ==
    /\ [](( ncalls >= 1 /\ spc = "join") => (ENABLED ShutdownJoin \/ ENABLED ShutdownReturn))
    /\ [](\A w \in Workers : joins[w] <= 1)
    /\ [][C10_Step]_vars

\* A second shutdown() has returned on a pool that had workers and ran a task.
C10_Witness ==
    /\ ncalls = 2 /\ nworkers = MaxWorkers /\ spc = "out"
    /\ \A w \in Workers : joins[w] = 1
    /\ deqOrder # <<>>

\* ------------------------------------------------------------------ properties of host calls
SingleFrameCalls ==
    {"resize_frame", "preprocess_for_inference", "encode_jpeg", "preprocess_and_encode"}

EncodeCalls == {"encode_jpeg", "preprocess_and_encode"}

\* C11: a call of resize_frame, preprocess_for_inference, encode_jpeg or
\* preprocess_and_encode that returns success = true has incremented
\* frames_processed by exactly 1 and, if it is an encode, added exactly the
\* length of the returned codestream to bytes_encoded (a non-encode adds
\* nothing), under stats_mutex_; one that returns success = false has left both
\* counters as they were.
C11_StatsFollowSuccess ==
    call.name \in SingleFrameCalls =>
        IF call.result.success
        THEN /\ frames_processed_[0] = call.fp0 + 1
             /\ bytes_encoded_[0] = call.be0 +
                    (IF call.name \in EncodeCalls
                     THEN CodestreamLength(call.result.data) ELSE 0)
             /\ call.stats = "locked"
        ELSE /\ frames_processed_[0] = call.fp0
             /\ bytes_encoded_[0] = call.be0

\* A successful preprocess_and_encode on a processor whose counters earlier
\* calls had already raised.
C11_Witness ==
    /\ call.name = "preprocess_and_encode" /\ call.result.success
    /\ call.fp0 >= 1 /\ call.be0 >= 1
    /\ frames_processed_[0] = call.fp0 + 1
    /\ bytes_encoded_[0] > call.be0

\* C12: once reset_stats() has been called, whenever the host is inside no call
\* and has made only encode calls since (encode_jpeg, preprocess_and_encode,
\* batch_encode_jpeg with its team threads interleaved in any way),
\* frames_processed is the number of successful results those calls returned
\* and bytes_encoded is the sum of the lengths of their codestreams.
C12_CountersMatchEncodesSinceReset ==
    (since.reset /\ since.onlyEncodes /\ bpc[0] # "running") =>
        /\ frames_processed_[0] = since.encodes
        /\ bytes_encoded_[0] = since.bytes

\* After a reset, one encode_jpeg and a batch_encode_jpeg of two frames run by
\* two threads whose codec calls overlapped (one codestream came out torn):
\* three successful encodes.
C12_Witness ==
    /\ since.reset /\ since.onlyEncodes
    /\ Returned(0, "encode") /\ num_threads_[0] = 2
    /\ since.encodes = 3 /\ frames_processed_[0] = 3
    /\ \E i \in 1 .. Len(returned[0]) : Len(returned[0][i].data) = 2

\* What batch_encode_jpeg, run by a team of n threads on the frames of fs whose
\* index is in `kept` and on no others, can return for frame i: the result of
\* encoding it alone, or, if the team has two threads and two of the kept
\* frames reach the codec, anything their overlapping calls on the shared
\* handle can produce.
BatchOutcomes(fs, kept, n, i) ==
    LET pr == EncodePrepare(fs[i])
        reaching == {k \in kept : EncodePrepare(fs[k]).ok}
    IN IF ~pr.ok THEN {EncodeRejected(fs[i], pr.what)}
       ELSE IF n >= 2 /\ Cardinality(reaching) >= 2
            THEN {EncodeFinish(fs[i], c) : c \in TjCompress2Raced(pr.mat)}
            ELSE {EncodeJpegInternal(fs[i])}

\* Encoding a buffer whose channel count is outside `supported` fails with the
\* unsupported-channel-count error before the codec is called; in a batch its
\* failed result is assigned once, to its own slot, and every sibling holds a
\* result the batch without the unsupported frames can return for it.
UnsupportedRejectedAlone(supported) ==
    /\ (call.name = "encode_jpeg" /\ call.frame.channels \notin supported) =>
           /\ ~call.result.success
           /\ call.result.error_msg = "Unsupported channel count"
           /\ call.codec = <<>>
    /\ Returned(0, "encode") =>
           LET fs == frames[0]
               siblings == {i \in 1 .. Len(fs) : fs[i].channels \in supported}
           IN \A j \in (1 .. Len(fs)) \ siblings :
                 /\ returned[0][j] = EncodeRejected(fs[j], "Unsupported channel count")
                 /\ writes[0][j] = 1
                 /\ \A i \in siblings :
                       returned[0][i] \in BatchOutcomes(fs, siblings, num_threads_[0], i)

\* C13, as claimed: encoding a buffer whose channel count is not in {1, 3}
\* yields success = false with the unsupported-channel-count error, and in a
\* batch it does not affect the results of its sibling frames.
C13_OutsideOneThreeRejected == UnsupportedRejectedAlone({1, 3})

\* C13, amended: encoding a buffer whose channel count is not in {1, 3, 4}
\* yields success = false with the unsupported-channel-count error and never
\* reaches the codec; in a batch the failure is confined to its own slot and
\* every sibling holds a result the batch without that frame can return for it.
C13_OutsideOneThreeFourRejected == UnsupportedRejectedAlone({1, 3, 4})

\* A batch of two valid frames around a 2-channel one, run by two threads: the
\* middle slot holds the rejection, both siblings their codestreams.
C13_Witness ==
    /\ Returned(0, "encode") /\ num_threads_[0] = 2
    /\ frames[0] = <<GoodA, TwoChannel, GoodB>>
    /\ ~returned[0][2].success
    /\ returned[0][1] = EncodeJpegInternal(GoodA)
    /\ returned[0][3] = EncodeJpegInternal(GoodB)

\* C14: encode_jpeg hands a 1-channel or 3-channel buffer that has pixels to the
\* codec as given (as TJPF_GRAY and TJPF_BGR) and returns its codestream; it
\* first reduces a 4-channel buffer to its 3 BGR channels, hands those to the
\* codec and returns success; for every other channel count it returns
\* success = false with the unsupported-channel-count error without calling
\* the codec.
C14_ChannelDispatch ==
    call.name = "encode_jpeg" =>
        LET f == call.frame
            r == call.result
        IN IF f.channels \in {1, 3}
           THEN ~MatEmpty(f) =>
                   /\ call.codec = <<f>>
                   /\ r.success
                   /\ r.data = <<"jpeg", f.id, f.cols, f.rows,
                                 IF f.channels = 1 THEN "TJPF_GRAY" ELSE "TJPF_BGR", f.depth>>
           ELSE IF f.channels = 4
           THEN ~MatEmpty(f) =>
                   /\ Len(call.codec) = 1
                   /\ call.codec[1].channels = 3 /\ call.codec[1].order = "BGR"
                   /\ call.codec[1].cols = f.cols /\ call.codec[1].rows = f.rows
                   /\ r.success /\ r.error_msg = ""
                   /\ r.data = <<"jpeg", f.id, f.cols, f.rows, "TJPF_BGR", f.depth>>
           ELSE /\ ~r.success
                /\ r.error_msg = "Unsupported channel count"
                /\ call.codec = <<>>

\* encode_jpeg returned the codestream of a BGRA frame, encoded from three
\* channels.
C14_Witness ==
    /\ call.name = "encode_jpeg" /\ call.frame = Bgra
    /\ call.result.success
    /\ Len(call.codec) = 1 /\ call.codec[1].channels = 3

\* C15: a preprocess_and_encode call whose preprocessing step failed has not
\* called the codec, has left both counters as they were and returns
\* success = false with the message of the preprocessing error; the codec is
\* called only on the output of a preprocessing step that succeeded.
C15_NoEncodeAfterFailedPreprocess ==
    call.name = "preprocess_and_encode" =>
        /\ ~call.pre.ok =>
              /\ call.codec = <<>>
              /\ ~call.result.success
              /\ call.result.error_msg = call.pre.what
              /\ frames_processed_[0] = call.fp0
              /\ bytes_encoded_[0] = call.be0
        /\ call.codec # <<>> =>
              /\ call.pre.ok
              /\ call.codec = CodecCalls(call.pre.mat)

\* preprocess_and_encode returned the resize error of an empty frame, on a
\* processor that had encoded before.
C15_Witness ==
    /\ call.name = "preprocess_and_encode" /\ ~call.pre.ok
    /\ call.frame = ZeroWidth
    /\ ~call.result.success /\ call.result.error_msg = call.pre.what
    /\ call.fp0 >= 1 /\ call.be0 >= 1

PreprocessingCalls == {"preprocess_for_inference", "preprocess_and_encode"}

\* C16: a call of resize_frame with a zero or negative width or height, and a
\* call of preprocess_for_inference or preprocess_and_encode with a zero or
\* negative target_width or target_height, returns success = false.
C16_NonPositiveTargetRejected ==
    /\ (call.name = "resize_frame" /\ (call.width <= 0 \/ call.height <= 0)) =>
           ~call.result.success
    /\ ( /\ call.name \in PreprocessingCalls
         /\ (call.config.target_width <= 0 \/ call.config.target_height <= 0) ) =>
           ~call.result.success

\* C17: a preprocessing call with normalize enabled and an std with a zero
\* component returns success = false, and no channel has been divided by the
\* zero component.
C17_ZeroStdRejected ==
    ( /\ call.name \in PreprocessingCalls
      /\ call.config.normalize
      /\ \E i \in 1 .. 3 : call.config.std[i] = 0 ) =>
        /\ ~call.result.success
        /\ call.pre.ok => call.pre.mat.values # "nonfinite"

\* C18: resize_frame(buffer, W, H) returns either success = true with width = W
\* and height = H, these being positive and the data being the W x H pixels of
\* the buffer's channels, or success = false with an error message.
C18_ResizeReportsActualGeometry ==
    call.name = "resize_frame" =>
        LET r == call.result
        IN IF r.success
           THEN /\ r.width = call.width /\ r.height = call.height
                /\ r.width > 0 /\ r.height > 0
                /\ r.channels = call.frame.channels
                /\ r.data # <<>>
                /\ r.data[5] = r.width * r.height * r.channels * ElemSize(call.frame)
           ELSE r.error_msg # ""

\* resize_frame enlarged a BGRA frame to the requested 8 x 4.
C18_Witness ==
    /\ call.name = "resize_frame" /\ call.frame = Bgra
    /\ call.width = 8 /\ call.height = 4
    /\ call.result.success
    /\ call.result.width = 8 /\ call.result.height = 4

\* C19: a batch_preprocess or batch_encode_jpeg call on an empty frame list has
\* nothing to wait for and returns an empty result list, the counters being
\* what they were when the call was made.
C19_EmptyBatchReturnsEmpty ==
    (bpc[0] # "idle" /\ frames[0] = <<>>) =>
        /\ bpc[0] = "running" => BarrierPassed(0)
        /\ bpc[0] = "returned" => returned[0] = <<>>
        /\ frames_processed_[0] = call.fp0
        /\ bytes_encoded_[0] = call.be0

\* batch_encode_jpeg returned from an empty frame list on a processor whose
\* counters earlier calls had raised.
C19_Witness ==
    /\ Returned(0, "encode") /\ frames[0] = <<>>
    /\ call.name = "batch_encode_jpeg"
    /\ returned[0] = <<>>
    /\ call.fp0 >= 1 /\ call.be0 >= 1

\* The team threads of the tasks' batch calls that are processing a frame: in
\* the codec, or holding a preprocessed frame on the way to push_back.
Processing ==
    {wt \in Workers \X Threads : tpc[wt[1]][wt[2]] \in {"push", "compress"}}

\* C20: a pool task runs its batch on the worker thread alone (its batch call
\* has a team of one), so the threads processing frames at any moment are at
\* most the P workers of the pool.
C20_PoolBatchUsesOneLayer ==
    /\ \A w \in Workers : wpc[w] = "run" => num_threads_[w] = 1
    /\ Cardinality(Processing) <= nworkers

\* The data of a result is the output of its operation: the pixels the
\* transforms computed or the codestream of the frame, not a codestream torn by
\* an overlapping codec call nor values read from outside the image.
HoldsOutput(data) ==
    /\ data # <<>>
    /\ Len(data) # 2
    /\ data[1] = "raw" => data[6] # "undefined"

\* A ProcessedFrame gated by its success flag.
Gated(r) ==
    IF r.success THEN r.error_msg = "" /\ HoldsOutput(r.data)
    ELSE r.error_msg # "" /\ r.data = <<>>

\* C21: every call returns (no fault takes the process down instead), and every
\* ProcessedFrame returned by resize_frame, preprocess_for_inference,
\* encode_jpeg, preprocess_and_encode and every slot a batch call returns is
\* gated by its success flag: with success = true the error message is empty
\* and data holds the output, with success = false an error message is set and
\* data is empty.
C21_ResultsGatedBySuccess ==
    /\ alive
    /\ call.name \in SingleFrameCalls => Gated(call.result)
    /\ bpc[0] = "returned" => \A i \in 1 .. Len(returned[0]) : Gated(returned[0][i])

\* C22, per step: a step that changes frames_processed or bytes_encoded is taken
\* by the thread holding stats_mutex_; a thread that finishes the work of its
\* try block (transforms, codec) does not hold stats_mutex_; and a step that
\* lowers a counter is a statement of reset_stats().
C22_Step ==
    /\ (frames_processed_'[0] # frames_processed_[0] \/ bytes_encoded_'[0] # bytes_encoded_[0])
          => /\ stats_mutex_ # 0
             /\ stats_mutex_' = stats_mutex_
             /\ cpc'[stats_mutex_] # cpc[stats_mutex_]
    /\ \A c \in Callers : (cpc[c] = "work" /\ cpc'[c] # "work") => stats_mutex_ # c
    /\ (frames_processed_'[0] < frames_processed_[0] \/ bytes_encoded_'[0] < bytes_encoded_[0])
          => /\ stats_mutex_ # 0
             /\ cjob[stats_mutex_].name = "reset_stats"

\* C22: with several threads calling one FrameProcessor in any interleaving,
\* the counters change only in steps of the thread holding stats_mutex_, no
\* thread is in the work of its try block (transforms, codec) while it holds
\* the mutex, and the counters never decrease except by reset_stats().
C22_CountersChangeOnlyUnderLock ==
    /\ [](\A c \in Callers : cpc[c] = "work" => stats_mutex_ # c)
    /\ [][C22_Step]_vars

\* One thread is resetting the counters an earlier encode had raised
\* (frames_processed already zeroed, bytes_encoded not yet) while another is
\* in the work of its own call.
C22_Witness ==
    \E c \in Callers, d \in Callers :
        /\ c # d
        /\ stats_mutex_ = c /\ cpc[c] = "zero_bytes"
        /\ frames_processed_[0] = 0 /\ bytes_encoded_[0] > 0
        /\ cpc[d] = "work"

\* The task ids workers have dequeued, and those a worker is running now.
Dequeued == {deqOrder[n] : n \in 1 .. Len(deqOrder)}
Running == {wtask[w] : w \in {v \in Workers : wpc[v] = "run"}}

\* C23: every task a worker has dequeued is being run by it or has set its
\* promise, and a promise once set is not set again; the process and every
\* worker thread outlive each task, also one whose FrameProcessor cannot be
\* constructed: a worker is waiting for a task, running one, or has returned on
\* shutdown.
C23_DequeuedTaskSetsPromise ==
    /\ [](\A k \in Dequeued : k \in Running \/ Completed(k))
    /\ [](alive /\ \A w \in Workers : wpc[w] \in {"wait", "run", "exited"})
    /\ [][\A k \in TaskIds : Completed(k) => promise'[k] = promise[k]]_vars
====
